---- MODULE Spec2Model ----
(***************************************************************************)
(* Model of src/generate.py: the bounded-concurrency resume generation     *)
(* pipeline (main -> asyncio.run(main_async)), its CostTracker and the     *)
(* weighted role selector.                                                 *)
(*                                                                         *)
(* Scheduling is asyncio's: one coroutine runs at a time and gives up the  *)
(* event loop only at an await.  `running` is the job that owns the loop;  *)
(* the steps between two awaits of one job are separate actions so that    *)
(* intermediate states can be inspected, but no other coroutine moves      *)
(* while running # 0.                                                      *)
(*                                                                         *)
(* Money is kept exact: prices are in cents per 1M tokens and a cost is a  *)
(* number of millionths of a cent, so (t / 1_000_000) * price is t * price.*)
(* Floating-point rounding is not modelled.                                *)
(***************************************************************************)
EXTENDS Integers, Sequences, FiniteSets, TLC

\* ---------------------------------------------------------------- bounds
MaxTotal == 3
MaxConcurrency == 2

\* ------------------------------------------------------------- constants
\* prices in cents per 1M tokens ($0.05 and $0.40)
PRICE_INPUT_PER_1M == 5
PRICE_OUTPUT_PER_1M == 40
Million == 1000000

\* token usages (prompt_tokens, completion_tokens) the API may report
Usages == {<<100, 50>>, <<Million, 0>>, <<0, Million>>}

INDUSTRIES == {"tech", "health", "retail"}

ROLE_MAPPING ==
    [ind \in INDUSTRIES |->
        CASE ind = "tech"   -> [primary |-> {"engineer", "analyst"}, secondary |-> {"writer"},
                                weights |-> <<1, 0>>]
          [] ind = "health" -> [primary |-> {"nurse"}, secondary |-> {"coder", "clerk"},
                                weights |-> <<0, 1>>]
          [] ind = "retail" -> [primary |-> {"buyer"}, secondary |-> {"cashier"},
                                weights |-> <<3, 1>>]]

Jobs == 1..MaxTotal
NoJob == 0

VARIABLES
    total, save_costs, concurrency,   \* arguments of main_async
    mainpc,          \* position of main_async / asyncio.run
    pc,              \* position of each generate_single_resume task
    running,         \* the job that owns the event loop, NoJob when none
    sem,             \* semaphore._value
    waiters,         \* semaphore._waiters, futures not yet done (FIFO)
    cost_tracker,    \* the CostTracker
    response,        \* per job: (prompt_tokens, completion_tokens) of the response
    cost,            \* per job: local variable cost (line 177)
    industry, role,  \* per job: locals industry and role (lines 171-172)
    apiCalls,        \* per job: chat.completions.create calls issued
    addCalls,        \* per job: cost_tracker.add_usage calls that returned
    addBegun,        \* per job: cost_tracker.add_usage calls entered
    order,           \* jobs in the order their API responses were received
    owners,          \* per entry of resume_costs: the job that appended it
    advCalls,        \* per job: progress.advance calls made
    files,           \* per index: writes of output/resume_<index>.pdf
    progress,        \* progress.advance calls
    results,         \* per job: value returned to gather
    summary,         \* the summary table printed, or NoSummary
    cost_log         \* content of cost_log.json, or NoLog

vars == <<total, save_costs, concurrency, mainpc, pc, running, sem, waiters,
          cost_tracker, response, cost, industry, role, apiCalls, addCalls,
          addBegun, order, owners, advCalls,
          files, progress, results, summary, cost_log>>

\* ------------------------------------------------------------- helpers
RECURSIVE SumSeq(_)
SumSeq(s) == IF s = <<>> THEN 0 ELSE Head(s) + SumSeq(Tail(s))

\* the sum of f over the jobs 1..n that are in S
RECURSIVE SumUpTo(_, _, _)
SumUpTo(f, S, n) ==
    IF n = 0 THEN 0
    ELSE (IF n \in S THEN f[n] ELSE 0) + SumUpTo(f, S, n - 1)

\* the sum of f over a set S of jobs
SumOver(f, S) == SumUpTo(f, S, MaxTotal)

\* Python float division a / b: a ZeroDivisionError or the exact quotient
Div(a, b) ==
    IF b = 0 THEN [err |-> TRUE, num |-> 0, den |-> 0]
    ELSE [err |-> FALSE, num |-> a, den |-> b]

Zero == [err |-> FALSE, num |-> 0, den |-> 1]

\* ---------------------------------------------------------- CostTracker
CostTracker ==
    [total_input_tokens |-> 0, total_output_tokens |-> 0, resume_costs |-> <<>>]

\* add_usage with `=` in place of `+=` on the token counters
add_usage_overwrite(self, input_tokens, output_tokens) ==
    LET c == input_tokens * PRICE_INPUT_PER_1M + output_tokens * PRICE_OUTPUT_PER_1M
    IN [tracker |-> [total_input_tokens  |-> input_tokens,
                     total_output_tokens |-> output_tokens,
                     resume_costs        |-> Append(self.resume_costs, c)],
        ret |-> c]

\* add_usage with the two prices exchanged
add_usage_swapped(self, input_tokens, output_tokens) ==
    LET c == input_tokens * PRICE_OUTPUT_PER_1M + output_tokens * PRICE_INPUT_PER_1M
    IN [tracker |-> [total_input_tokens  |-> self.total_input_tokens + input_tokens,
                     total_output_tokens |-> self.total_output_tokens + output_tokens,
                     resume_costs        |-> Append(self.resume_costs, c)],
        ret |-> c]

\* add_usage that returns the cost without appending it
add_usage_noappend(self, input_tokens, output_tokens) ==
    LET c == input_tokens * PRICE_INPUT_PER_1M + output_tokens * PRICE_OUTPUT_PER_1M
    IN [tracker |-> [total_input_tokens  |-> self.total_input_tokens + input_tokens,
                     total_output_tokens |-> self.total_output_tokens + output_tokens,
                     resume_costs        |-> self.resume_costs],
        ret |-> c]

\* add_usage with insert(0, cost) in place of append(cost)
add_usage_prepend(self, input_tokens, output_tokens) ==
    LET c == input_tokens * PRICE_INPUT_PER_1M + output_tokens * PRICE_OUTPUT_PER_1M
    IN [tracker |-> [total_input_tokens  |-> self.total_input_tokens + input_tokens,
                     total_output_tokens |-> self.total_output_tokens + output_tokens,
                     resume_costs        |-> <<c>> \o self.resume_costs],
        ret |-> c]

\* add_usage with resume_costs = [cost] in place of append(cost)
add_usage_reset(self, input_tokens, output_tokens) ==
    LET c == input_tokens * PRICE_INPUT_PER_1M + output_tokens * PRICE_OUTPUT_PER_1M
    IN [tracker |-> [total_input_tokens  |-> self.total_input_tokens + input_tokens,
                     total_output_tokens |-> self.total_output_tokens + output_tokens,
                     resume_costs        |-> <<c>>],
        ret |-> c]

\* add_usage: the tracker after the call and the value returned
add_usage(self, input_tokens, output_tokens) ==
    LET c == input_tokens * PRICE_INPUT_PER_1M + output_tokens * PRICE_OUTPUT_PER_1M
    IN [tracker |-> [total_input_tokens  |-> self.total_input_tokens + input_tokens,
                     total_output_tokens |-> self.total_output_tokens + output_tokens,
                     resume_costs        |-> Append(self.resume_costs, c)],
        ret |-> c]

total_cost(self) == SumSeq(self.resume_costs)

\* avg_cost without the test for an empty list
avg_cost_unguarded(self) == Div(total_cost(self), Len(self.resume_costs))

avg_cost(self) ==
    IF self.resume_costs # <<>>
    THEN Div(total_cost(self), Len(self.resume_costs))
    ELSE Zero

\* ----------------------------------------------------------- select_role
\* itertools.accumulate(weights)
cum_weights(weights) ==
    [k \in 1..Len(weights) |-> SumSeq(SubSeq(weights, 1, k))]

\* bisect.bisect_left in place of bisect_right
bisect_left(a, x, hi) ==
    LET cand == {k \in 0..(hi - 1) : a[k + 1] >= x}
    IN IF cand = {} THEN hi ELSE CHOOSE k \in cand : \A m \in cand : k <= m

\* bisect.bisect_right(a, x, 0, hi) on 0-based positions: the first position
\* below hi whose element is greater than x, else hi
bisect(a, x, hi) ==
    LET cand == {k \in 0..(hi - 1) : a[k + 1] > x}
    IN IF cand = {} THEN hi ELSE CHOOSE k \in cand : \A m \in cand : k <= m

\* random.choices(range(len(weights)), weights=weights)[0]: the set of
\* possible results; random() * total lies in [0, total), and with integer
\* cumulative weights bisect gives the same position for x and floor(x)
choices(weights) ==
    LET cw == cum_weights(weights)
        tot == cw[Len(weights)]
    IN {bisect(cw, x, Len(weights) - 1) : x \in 0..(tot - 1)}

\* the set of roles select_role(industry) may return
select_role(ind) ==
    LET mapping == ROLE_MAPPING[ind]
    IN UNION {IF tier_index = 0 THEN mapping.primary ELSE mapping.secondary :
                tier_index \in choices(mapping.weights)}

\* ------------------------------------------------------------ main_async
\* range(1, total): the last index is missed
JobRangeShort(n) == 1..(n - 1)

\* range(1, total + 1)
JobRange(n) == 1..n

NoSummary == [produced |-> FALSE]
NoLog == [written |-> FALSE]
NoResponse == <<0, 0>>

Init ==
    /\ total \in 0..MaxTotal
    /\ save_costs \in BOOLEAN
    /\ concurrency \in 1..MaxConcurrency
    /\ mainpc = "start"
    /\ pc = [i \in Jobs |-> "none"]
    /\ running = NoJob
    /\ sem = 0
    /\ waiters = <<>>
    /\ cost_tracker = CostTracker
    /\ response = [i \in Jobs |-> NoResponse]
    /\ cost = [i \in Jobs |-> 0]
    /\ industry = [i \in Jobs |-> "none"]
    /\ role = [i \in Jobs |-> "none"]
    /\ apiCalls = [i \in Jobs |-> 0]
    /\ addCalls = [i \in Jobs |-> 0]
    /\ addBegun = [i \in Jobs |-> 0]
    /\ order = <<>>
    /\ owners = <<>>
    /\ advCalls = [i \in Jobs |-> 0]
    /\ files = [i \in Jobs |-> 0]
    /\ progress = 0
    /\ results = [i \in Jobs |-> <<>>]
    /\ summary = NoSummary
    /\ cost_log = NoLog

Ended(i) == pc[i] \in {"done", "failed", "cancelled"}
Launched == {i \in Jobs : pc[i] # "none"}
Failed == {i \in Jobs : pc[i] = "failed"}

\* lines 213-245: tracker, semaphore and tasks are created, gather is awaited
Launch ==
    /\ mainpc = "start"
    /\ mainpc' = "gather"
    /\ sem' = concurrency
    /\ pc' = [i \in Jobs |-> IF i \in JobRange(total) THEN "scheduled" ELSE "none"]
    /\ UNCHANGED <<addBegun, order, owners, advCalls, addCalls, total, save_costs, concurrency, running, waiters, cost_tracker,
                   response, cost, industry, role, apiCalls, files, progress,
                   results, summary, cost_log>>


\* ------------------------------------------------- asyncio.Semaphore
\* a gate that never closes
lockedNever == FALSE

\* Semaphore.locked(): no free slot, or somebody is already queued
locked == sem = 0 \/ waiters # <<>>

Holding(i) ==
    pc[i] \in {"granted", "api", "resumed", "counting", "recorded", "parsed", "rendered",
             "advanced"}

\* acquire and release written without `async with`: an exception skips the
\* release
ExitSlotNoFinally(i, newpc) ==
    IF newpc # "failed" /\ waiters # <<>>
    THEN /\ pc' = [pc EXCEPT ![i] = newpc, ![Head(waiters)] = "granted"]
         /\ waiters' = Tail(waiters)
         /\ sem' = sem
    ELSE /\ pc' = [pc EXCEPT ![i] = newpc]
         /\ waiters' = waiters
         /\ sem' = IF newpc = "failed" THEN sem ELSE sem + 1

\* release() that increments the counter and wakes nobody
ExitSlotNoWake(i, newpc) ==
    /\ pc' = [pc EXCEPT ![i] = newpc]
    /\ waiters' = waiters
    /\ sem' = sem + 1

\* Semaphore.release() as called by __aexit__ of `async with semaphore` when
\* job i leaves the block with position newpc: the slot goes to the first
\* waiter whose future is not done, else the counter is incremented
ExitSlot(i, newpc) ==
    IF waiters # <<>>
    THEN /\ pc' = [pc EXCEPT ![i] = newpc, ![Head(waiters)] = "granted"]
         /\ waiters' = Tail(waiters)
         /\ sem' = sem
    ELSE /\ pc' = [pc EXCEPT ![i] = newpc]
         /\ waiters' = waiters
         /\ sem' = sem + 1

\* --------------------------------------------- generate_single_resume
AllStarted == \A j \in Jobs : pc[j] # "scheduled"

\* lines 108-117: the API call is issued and the job suspends on it.  The
\* draws of lines 171-174 decide only the prompt text and the template, never
\* the control flow; they are modelled by SelectRole under SpecRole
IssueCall(i) ==
    /\ apiCalls' = [apiCalls EXCEPT ![i] = @ + 1]
    /\ UNCHANGED <<industry, role>>

\* first step of task i: line 169, then either the slot is free and the call
\* is issued, or the job queues.  gather schedules the first steps of all
\* tasks in creation order, ahead of any wake-up a response or a release can
\* schedule, so the tasks start in index order before anything else happens
Start(i) ==
    /\ mainpc = "gather"
    /\ running = NoJob
    /\ pc[i] = "scheduled"
    /\ \A j \in Jobs : j < i => pc[j] # "scheduled"
    /\ IF ~locked
       THEN /\ sem' = sem - 1
            /\ pc' = [pc EXCEPT ![i] = "api"]
            /\ IssueCall(i)
            /\ UNCHANGED waiters
       ELSE /\ waiters' = Append(waiters, i)
            /\ pc' = [pc EXCEPT ![i] = "waiting"]
            /\ UNCHANGED <<sem, industry, role, apiCalls>>
    /\ UNCHANGED <<addBegun, order, owners, advCalls, addCalls, total, save_costs, concurrency, mainpc, running, cost_tracker,
                   response, cost, files, progress, results, summary, cost_log>>

\* a waiter whose future was set by release() resumes inside acquire(),
\* wakes the next waiter if the counter is still positive, and issues its call
Granted(i) ==
    /\ mainpc = "gather"
    /\ running = NoJob
    /\ AllStarted
    /\ pc[i] = "granted"
    /\ IF sem > 0 /\ waiters # <<>>
       THEN /\ pc' = [pc EXCEPT ![i] = "api", ![Head(waiters)] = "granted"]
            /\ waiters' = Tail(waiters)
            /\ sem' = sem - 1
       ELSE /\ pc' = [pc EXCEPT ![i] = "api"]
            /\ UNCHANGED <<waiters, sem>>
    /\ IssueCall(i)
    /\ UNCHANGED <<addBegun, order, owners, advCalls, addCalls, total, save_costs, concurrency, mainpc, running, cost_tracker,
                   response, cost, files, progress, results, summary, cost_log>>

\* the job leaves generate_single_resume by an exception: locals are gone,
\* the slot is released by __aexit__, the event loop is free again
Fail(i) ==
    /\ ExitSlot(i, "failed")
    /\ running' = NoJob
    /\ UNCHANGED <<industry, role>>

\* an except clause around the API call that books an empty usage before
\* re-raising
ApiErrorRecords(i) ==
    /\ mainpc = "gather"
    /\ running = NoJob
    /\ AllStarted
    /\ pc[i] = "api"
    /\ Fail(i)
    /\ cost_tracker' = add_usage(cost_tracker, 0, 0).tracker
    /\ UNCHANGED <<addBegun, order, owners, advCalls, addCalls, total, save_costs,
                   concurrency, mainpc, response, cost, apiCalls, files, progress,
                   results, summary, cost_log>>

\* line 110: the awaited API call raises
ApiError(i) ==
    /\ mainpc = "gather"
    /\ running = NoJob
    /\ AllStarted
    /\ pc[i] = "api"
    /\ Fail(i)
    /\ UNCHANGED <<addBegun, order, owners, advCalls, addCalls, total, save_costs, concurrency, mainpc, cost_tracker, response,
                   cost, apiCalls, files, progress, results, summary, cost_log>>

\* the slot given back as soon as the response is there
KeepSlotReleased(i, newpc) ==
    IF waiters # <<>>
    THEN /\ pc' = [pc EXCEPT ![i] = newpc, ![Head(waiters)] = "granted"]
         /\ waiters' = Tail(waiters)
         /\ sem' = sem
    ELSE /\ pc' = [pc EXCEPT ![i] = newpc]
         /\ waiters' = waiters
         /\ sem' = sem + 1

\* lines 176-184 are inside the `async with` block of line 169: the job goes
\* on to newpc with its slot
KeepSlot(i, newpc) ==
    /\ pc' = [pc EXCEPT ![i] = newpc]
    /\ UNCHANGED <<sem, waiters>>

\* line 110: the awaited API call returns a response; the job owns the loop
\* until it returns or raises
ApiResponse(i) ==
    /\ mainpc = "gather"
    /\ running = NoJob
    /\ AllStarted
    /\ pc[i] = "api"
    /\ \E u \in Usages : response' = [response EXCEPT ![i] = u]
    /\ KeepSlot(i, "resumed")
    /\ running' = i
    /\ order' = Append(order, i)
    /\ UNCHANGED <<addBegun, owners, advCalls, addCalls, total, save_costs, concurrency, mainpc, cost_tracker,
                   cost, industry, role, apiCalls, files, progress, results,
                   summary, cost_log>>

\* an await between the counter updates and the append
add_usage_yields(i) == NoJob

\* add_usage contains no await: between lines 68 and 74 the calling job keeps
\* the event loop
add_usage_owner(i) == i

\* lines 120-121, 67-68: add_usage is entered and updates the token counters
CountUsage(i) ==
    /\ running = i
    /\ pc[i] = "resumed"
    /\ LET r == add_usage(cost_tracker, response[i][1], response[i][2])
       IN cost_tracker' =
             [cost_tracker EXCEPT !.total_input_tokens = r.tracker.total_input_tokens,
                                  !.total_output_tokens = r.tracker.total_output_tokens]
    /\ addBegun' = [addBegun EXCEPT ![i] = @ + 1]
    /\ pc' = [pc EXCEPT ![i] = "counting"]
    /\ running' = add_usage_owner(i)
    /\ UNCHANGED <<order, owners, advCalls, addCalls, total, save_costs,
                   concurrency, mainpc, sem, waiters, response, cost, industry, role,
                   apiCalls, files, progress, results, summary, cost_log>>

\* lines 70-75, 121: add_usage appends the cost and returns it into `cost`
RecordUsage(i) ==
    /\ running = i
    /\ pc[i] = "counting"
    /\ LET r == add_usage(cost_tracker, response[i][1], response[i][2])
       IN /\ cost_tracker' =
                [cost_tracker EXCEPT !.resume_costs = r.tracker.resume_costs]
          /\ cost' = [cost EXCEPT ![i] = r.ret]
    /\ addCalls' = [addCalls EXCEPT ![i] = @ + 1]
    /\ owners' = Append(owners, i)
    /\ pc' = [pc EXCEPT ![i] = "recorded"]
    /\ UNCHANGED <<addBegun, order, advCalls, total, save_costs, concurrency,
                   mainpc, running, sem, waiters, response, industry, role, apiCalls,
                   files, progress, results, summary, cost_log>>

\* line 123: json.loads(content) returns the record
ParseOk(i) ==
    /\ running = i
    /\ pc[i] = "recorded"
    /\ pc' = [pc EXCEPT ![i] = "parsed"]
    /\ UNCHANGED <<addBegun, order, owners, advCalls, addCalls, total, save_costs, concurrency, mainpc, running, sem, waiters,
                   cost_tracker, response, cost, industry, role, apiCalls, files,
                   progress, results, summary, cost_log>>

\* line 123: json.loads(content) raises on an unparseable body
ParseError(i) ==
    /\ running = i
    /\ pc[i] = "recorded"
    /\ Fail(i)
    /\ UNCHANGED <<addBegun, order, owners, advCalls, addCalls, total, save_costs, concurrency, mainpc, cost_tracker, response,
                   cost, apiCalls, files, progress, results, summary, cost_log>>

\* a file name that does not depend on the index
render_pdf_fixed(index) == [files EXCEPT ![1] = @ + 1]

\* render_pdf(resume_data, index, template_name): writes resume_<index>.pdf
render_pdf(index) == [files EXCEPT ![index] = @ + 1]

\* line 182: rendering succeeds
RenderOk(i) ==
    /\ running = i
    /\ pc[i] = "parsed"
    /\ files' = render_pdf(i)
    /\ pc' = [pc EXCEPT ![i] = "rendered"]
    /\ UNCHANGED <<addBegun, order, owners, advCalls, addCalls, total, save_costs, concurrency, mainpc, running, sem, waiters,
                   cost_tracker, response, cost, industry, role, apiCalls,
                   progress, results, summary, cost_log>>

\* progress.advance in a finally clause: it also runs when rendering raises
RenderErrorAdvances(i) ==
    /\ running = i
    /\ pc[i] = "parsed"
    /\ Fail(i)
    /\ progress' = progress + 1
    /\ advCalls' = [advCalls EXCEPT ![i] = @ + 1]
    /\ UNCHANGED <<addBegun, order, owners, addCalls, total, save_costs, concurrency,
                   mainpc, cost_tracker, response, cost, apiCalls, files, results,
                   summary, cost_log>>

\* line 182: templating or PDF writing raises; no file is counted as written
RenderError(i) ==
    /\ running = i
    /\ pc[i] = "parsed"
    /\ Fail(i)
    /\ UNCHANGED <<addBegun, order, owners, advCalls, addCalls, total, save_costs, concurrency, mainpc, cost_tracker, response,
                   cost, apiCalls, files, progress, results, summary, cost_log>>

\* line 184: progress.advance(task_id)
Advance(i) ==
    /\ running = i
    /\ pc[i] = "rendered"
    /\ progress' = progress + 1
    /\ pc' = [pc EXCEPT ![i] = "advanced"]
    /\ advCalls' = [advCalls EXCEPT ![i] = @ + 1]
    /\ UNCHANGED <<addBegun, order, owners, addCalls, total, save_costs, concurrency, mainpc, running, sem, waiters,
                   cost_tracker, response, cost, industry, role, apiCalls, files,
                   results, summary, cost_log>>

\* return index, total so far
ReturnValueTotal(i) == <<i, total_cost(cost_tracker)>>

\* line 185: the pair returned
ReturnValue(i) == <<i, cost[i]>>

\* line 185: return index, cost; __aexit__ releases the slot
Return(i) ==
    /\ running = i
    /\ pc[i] = "advanced"
    /\ results' = [results EXCEPT ![i] = ReturnValue(i)]
    /\ ExitSlot(i, "done")
    /\ running' = NoJob
    /\ UNCHANGED <<industry, role>>
    /\ UNCHANGED <<addBegun, order, owners, advCalls, addCalls, total, save_costs, concurrency, mainpc, cost_tracker, response,
                   cost, apiCalls, files, progress, summary, cost_log>>

\* ------------------------------------------- main_async after the fan-out
\* gather(..., return_exceptions=True): no failure reaches main_async
gather_swallows == FALSE

\* asyncio.wait(..., return_when=FIRST_COMPLETED) in place of gather
gather_returns_first == Launched = {} \/ \E i \in Launched : Ended(i)

\* asyncio.gather(*tasks) without return_exceptions: the exception of the
\* first failed task is raised in main_async
gather_raises == Failed # {}

\* ... and returns once every task has finished
gather_returns == \A i \in Launched : Ended(i)

\* Between the failure of a task and the wake-up of main_async the event loop
\* still runs the tasks that are ready, so other jobs may move after a failure.
\* line 245 raises: main_async ends by the exception (nothing after line 245
\* runs) and asyncio.run (line 315) cancels every task still pending; the
\* futures of the queued waiters are cancelled at once
Abort ==
    /\ mainpc = "gather"
    /\ running = NoJob
    /\ AllStarted
    /\ gather_raises
    /\ mainpc' = "error"
    /\ waiters' = <<>>
    /\ UNCHANGED <<addBegun, order, owners, advCalls, addCalls, total, save_costs, concurrency, pc, running, sem, cost_tracker,
                   response, cost, industry, role, apiCalls, files, progress,
                   results, summary, cost_log>>

\* a cancelled task gets CancelledError at its await: a queued waiter just
\* leaves, a job that owns a slot gives it back
CancelStep(i) ==
    /\ mainpc = "error"
    /\ pc[i] \in {"waiting", "granted", "api"}
    /\ IF pc[i] = "waiting"
       THEN /\ pc' = [pc EXCEPT ![i] = "cancelled"]
            /\ UNCHANGED <<sem, waiters>>
       ELSE ExitSlot(i, "cancelled")
    /\ UNCHANGED <<industry, role>>
    /\ UNCHANGED <<addBegun, order, owners, advCalls, addCalls, total, save_costs, concurrency, mainpc, running, cost_tracker,
                   response, cost, apiCalls, files, progress, results, summary,
                   cost_log>>

\* lines 247-253: gather returned (every task is done), the summary table is
\* built from the tracker and printed
Summary ==
    /\ mainpc = "gather"
    /\ running = NoJob
    /\ AllStarted
    /\ ~gather_raises
    /\ gather_returns
    /\ IF avg_cost(cost_tracker).err
       THEN /\ mainpc' = "error"
            /\ UNCHANGED summary
       ELSE /\ mainpc' = "summary"
            /\ summary' = [produced |-> TRUE,
                           total |-> total,
                           total_input_tokens |-> cost_tracker.total_input_tokens,
                           total_output_tokens |-> cost_tracker.total_output_tokens,
                           avg_cost |-> avg_cost(cost_tracker),
                           total_cost |-> total_cost(cost_tracker)]
    /\ UNCHANGED <<addBegun, order, owners, advCalls, addCalls, total, save_costs, concurrency, pc, running, sem, waiters,
                   cost_tracker, response, cost, industry, role, apiCalls, files,
                   progress, results, cost_log>>

\* lines 256-269: the cost log is written
WriteCostLog ==
    /\ mainpc = "summary"
    /\ save_costs
    /\ cost_log' = [written |-> TRUE,
                    total_resumes |-> total,
                    total_input_tokens |-> cost_tracker.total_input_tokens,
                    total_output_tokens |-> cost_tracker.total_output_tokens,
                    total_cost_usd |-> total_cost(cost_tracker),
                    avg_cost_per_resume_usd |-> avg_cost(cost_tracker),
                    per_resume_costs_usd |-> cost_tracker.resume_costs]
    /\ mainpc' = "done"
    /\ UNCHANGED <<addBegun, order, owners, advCalls, addCalls, total, save_costs, concurrency, pc, running, sem, waiters,
                   cost_tracker, response, cost, industry, role, apiCalls, files,
                   progress, results, summary>>

\* line 256 with save_costs false: main_async returns
Finish ==
    /\ mainpc = "summary"
    /\ ~save_costs
    /\ mainpc' = "done"
    /\ UNCHANGED <<addBegun, order, owners, advCalls, addCalls, total, save_costs, concurrency, pc, running, sem, waiters,
                   cost_tracker, response, cost, industry, role, apiCalls, files,
                   progress, results, summary, cost_log>>

Next ==
    \/ Launch
    \/ \E i \in Jobs : Start(i)
    \/ \E i \in Jobs : Granted(i)
    \/ \E i \in Jobs : ApiError(i)
    \/ \E i \in Jobs : ApiResponse(i)
    \/ \E i \in Jobs : CountUsage(i)
    \/ \E i \in Jobs : RecordUsage(i)
    \/ \E i \in Jobs : ParseOk(i)
    \/ \E i \in Jobs : ParseError(i)
    \/ \E i \in Jobs : RenderOk(i)
    \/ \E i \in Jobs : RenderError(i)
    \/ \E i \in Jobs : Advance(i)
    \/ \E i \in Jobs : Return(i)
    \/ Abort
    \/ \E i \in Jobs : CancelStep(i)
    \/ Summary
    \/ WriteCostLog
    \/ Finish

Spec == Init /\ [][Next]_vars

\* ------------------------------------------------ runs without failures
\* the steps of a run in which every API call returns a parseable response
\* and rendering succeeds
NextOk ==
    \/ Launch
    \/ \E i \in Jobs : Start(i)
    \/ \E i \in Jobs : Granted(i)
    \/ \E i \in Jobs : ApiResponse(i)
    \/ \E i \in Jobs : CountUsage(i)
    \/ \E i \in Jobs : RecordUsage(i)
    \/ \E i \in Jobs : ParseOk(i)
    \/ \E i \in Jobs : RenderOk(i)
    \/ \E i \in Jobs : Advance(i)
    \/ \E i \in Jobs : Return(i)
    \/ Summary
    \/ WriteCostLog
    \/ Finish

\* the event loop runs every callback that is ready, and every API call
\* returns: a step that is possible is eventually taken
SpecFair == Init /\ [][NextOk]_vars /\ WF_vars(NextOk)

\* ------------------------------------------------ select_role on its own
\* lines 171-172 of job i: industry = random.choice(INDUSTRIES),
\* role = select_role(industry); every call is an independent draw
SelectRole(i) ==
    /\ \E ind \in INDUSTRIES : \E r \in select_role(ind) :
          /\ industry' = [industry EXCEPT ![i] = ind]
          /\ role' = [role EXCEPT ![i] = r]
    /\ UNCHANGED <<addBegun, order, owners, advCalls, addCalls, total, save_costs, concurrency, mainpc, pc, running, sem, waiters,
                   cost_tracker, response, cost, apiCalls, files, progress,
                   results, summary, cost_log>>

NextRole == \E i \in Jobs : SelectRole(i)

SpecRole == Init /\ [][NextRole]_vars

\* ================================================================ claims
Outstanding == {i \in Jobs : pc[i] = "api"}
Holders == {i \in Jobs : Holding(i)}
Recorded == {i \in Jobs : addCalls[i] > 0}
InputOf == [i \in Jobs |-> response[i][1]]
OutputOf == [i \in Jobs |-> response[i][2]]
AllEnded == mainpc # "start" /\ \A i \in Launched : Ended(i)

\* C1: in every reachable state the number of jobs whose API call is
\* outstanding (issued and not yet returned) is at most concurrency.
C1_ConcurrencyCap == Cardinality(Outstanding) <= concurrency

C1_Witness ==
    /\ concurrency >= 2
    /\ Cardinality(Outstanding) = concurrency
    /\ \E i \in Jobs : pc[i] = "waiting"

\* C2: whatever the interleaving of the jobs, after N add_usage calls the
\* token counters are the sums of the N inputs and the N outputs, and
\* total_cost is the sum of the N costs returned: no update is lost.
C2_NoLostUpdate ==
    (\A i \in Jobs : addBegun[i] = addCalls[i]) =>
    /\ Len(cost_tracker.resume_costs) = SumOver(addCalls, Jobs)
    /\ cost_tracker.total_input_tokens = SumOver(InputOf, Recorded)
    /\ cost_tracker.total_output_tokens = SumOver(OutputOf, Recorded)
    /\ total_cost(cost_tracker) = SumOver(cost, Recorded)

C2_Witness ==
    /\ concurrency >= 2
    /\ {1, 2} \subseteq Recorded
    /\ response[1] # response[2]
    /\ Len(cost_tracker.resume_costs) >= 2
    /\ cost_tracker.resume_costs[1] = cost[2]
    /\ Outstanding # {}

\* C3: a run with total = K in which every job succeeds ends with exactly K
\* output files, one per index 1..K and none for another index, each written
\* once, by the job of that index.
C3_ExactlyKFiles ==
    /\ \A idx \in Jobs :
          /\ files[idx] <= 1
          /\ files[idx] = 1 => pc[idx] \in {"rendered", "advanced", "done"}
    /\ mainpc \in {"summary", "done"} =>
          \A idx \in Jobs : files[idx] = IF idx \in 1..total THEN 1 ELSE 0

C3_Witness ==
    /\ mainpc = "done"
    /\ total >= 2
    /\ concurrency >= 2
    /\ \A idx \in 1..total : files[idx] = 1

\* C4: a job that fails after acquiring its slot releases it: free slots
\* plus jobs holding a slot is concurrency in every state, and once every job
\* has ended all concurrency slots are free.
C4_SlotsConserved ==
    mainpc # "start" =>
        /\ sem + Cardinality(Holders) = concurrency
        /\ AllEnded => sem = concurrency

C4_Witness ==
    /\ AllEnded
    /\ total >= 2
    /\ Failed # {}
    /\ \E i \in Jobs : pc[i] = "cancelled"
    /\ sem = concurrency

\* C5: if any job fails, the run does not reach the summary, the cost log is
\* not written even with save_costs set, main_async is left by the error,
\* and no index issues a second API call.
C5_FailureAborts ==
    /\ \A i \in Jobs : apiCalls[i] <= 1
    /\ Failed # {} =>
          /\ mainpc \in {"gather", "error"}
          /\ ~summary.produced
          /\ ~cost_log.written

C5_Witness ==
    /\ mainpc = "error"
    /\ save_costs
    /\ AllEnded
    /\ Failed # {}
    /\ \E i \in Jobs : pc[i] = "done"

\* C6: whenever the summary has been produced or the cost log written, all
\* total jobs have completed, no job holds a slot and no API call is
\* outstanding.
C6_SummaryAfterAllSettled ==
    (summary.produced \/ cost_log.written) =>
        /\ \A i \in 1..total : pc[i] = "done"
        /\ Holders = {}
        /\ Outstanding = {}
        /\ waiters = <<>>

C6_Witness ==
    /\ summary.produced
    /\ total >= 2
    /\ concurrency = 1

\* C7: whenever the cost log is written, per_resume_costs_usd has exactly
\* total_resumes = total entries and the logged token totals are the sums of
\* the token counts the API reported for all total jobs.
C7_CostLogComplete ==
    cost_log.written =>
        /\ cost_log.total_resumes = total
        /\ Len(cost_log.per_resume_costs_usd) = cost_log.total_resumes
        /\ cost_log.total_input_tokens = SumOver(InputOf, 1..total)
        /\ cost_log.total_output_tokens = SumOver(OutputOf, 1..total)

C7_Witness ==
    /\ cost_log.written
    /\ total >= 2
    /\ response[1] # response[2]

\* C8: add_usage(i, o) returns i * price_in + o * price_out with the price per
\* token being the price per 1M tokens / 1,000,000; the value returned is the
\* entry just appended to resume_costs; add_usage(1_000_000, 0) is exactly
\* PRICE_INPUT_PER_1M and add_usage(0, 1_000_000) exactly PRICE_OUTPUT_PER_1M.
C8_CostFormula ==
    \A i \in Recorded :
        /\ cost[i] = response[i][1] * PRICE_INPUT_PER_1M
                        + response[i][2] * PRICE_OUTPUT_PER_1M
        /\ pc[i] = "recorded" =>
              cost[i] = cost_tracker.resume_costs[Len(cost_tracker.resume_costs)]
        /\ response[i] = <<Million, 0>> => cost[i] = PRICE_INPUT_PER_1M * Million
        /\ response[i] = <<0, Million>> => cost[i] = PRICE_OUTPUT_PER_1M * Million

C8_Witness ==
    /\ \E i \in Jobs : pc[i] = "recorded" /\ response[i] = <<Million, 0>>
    /\ \E j \in Recorded : response[j] = <<0, Million>>

\* C9: avg_cost never fails: it is 0 on a tracker without recorded costs and
\* total_cost / n on a tracker with n >= 1 recorded costs, in every state of a
\* run, a run with total = 0 included.
C9_AvgCostTotal ==
    LET a == avg_cost(cost_tracker)
        n == SumOver(addCalls, Jobs)
    IN /\ ~a.err
       /\ n = 0 => a = Zero
       /\ n >= 1 => a.num = SumOver(cost, Recorded) /\ a.den = n
       /\ summary.produced /\ total = 0 => summary.avg_cost = Zero

C9_Witness ==
    /\ total = 0
    /\ summary.produced
    /\ summary.avg_cost = Zero

\* C10: select_role never selects a tier of weight 0: with weights [1, 0] the
\* role is in the primary pool, with [0, 1] in the secondary pool, and with
\* both weights positive in one of the two pools.
C10_RoleFromWeightedTier ==
    \A i \in Jobs :
        role[i] # "none" =>
            LET m == ROLE_MAPPING[industry[i]]
            IN /\ m.weights[1] = 0 => role[i] \in m.secondary /\ role[i] \notin m.primary
               /\ m.weights[2] = 0 => role[i] \in m.primary /\ role[i] \notin m.secondary
               /\ role[i] \in m.primary \cup m.secondary

C10_Witness ==
    /\ industry[1] = "tech" /\ role[1] \in ROLE_MAPPING["tech"].primary
    /\ industry[2] = "health" /\ role[2] \in ROLE_MAPPING["health"].secondary
    /\ industry[3] = "retail" /\ role[3] = "cashier"

Begun == {i \in Jobs : addBegun[i] > 0}
Done == {i \in Jobs : pc[i] = "done"}
RunEnded == mainpc \in {"done", "error"} /\ AllEnded
Range(q) == {q[k] : k \in 1..Len(q)}
Pos(q, x) == CHOOSE k \in 1..Len(q) : q[k] = x

\* C11 as stated: at the end of every run, successful or aborted, the number
\* of entries in resume_costs equals the number of jobs that completed.
C11_EntryPerCompletedJob ==
    RunEnded => Len(cost_tracker.resume_costs) = Cardinality(Done)

\* C11 as amended: at the end of every run resume_costs holds one entry per
\* job whose API call returned a response; every completed job has one, and
\* the jobs with an entry that did not complete are those that failed after
\* their response, in parsing or rendering.
C11_EntryPerResponse ==
    RunEnded =>
        /\ Len(cost_tracker.resume_costs) = Len(order)
        /\ Range(owners) = Range(order)
        /\ \A i \in Jobs : addCalls[i] = IF i \in Range(order) THEN 1 ELSE 0
        /\ Done \subseteq Range(owners)
        /\ Range(owners) \ Done = {i \in Failed : addCalls[i] = 1}
        /\ \A i \in Failed : addCalls[i] = 0 => addBegun[i] = 0

C11_Witness ==
    /\ RunEnded
    /\ Done # {}
    /\ \E i \in Failed : addCalls[i] = 1
    /\ Len(cost_tracker.resume_costs) > Cardinality(Done)

\* C12: add_usage is atomic with respect to the other jobs: the job keeps the
\* event loop between the counter updates and the append, so whenever another
\* job can run, len(resume_costs) is the number of add_usage calls begun and
\* the token counters are the sums over exactly those calls.
C12_AddUsageAtomic ==
    /\ \A i \in Jobs : pc[i] = "counting" => running = i
    /\ running = NoJob =>
          /\ Len(cost_tracker.resume_costs) = SumOver(addBegun, Jobs)
          /\ cost_tracker.total_input_tokens = SumOver(InputOf, Begun)
          /\ cost_tracker.total_output_tokens = SumOver(OutputOf, Begun)

C12_Witness ==
    /\ running = NoJob
    /\ SumOver(addBegun, Jobs) >= 2
    /\ Outstanding # {}
    /\ mainpc = "gather"

\* C13: a job holds its slot from before its API call until its rendering
\* has finished: whoever issues an API call, records a cost, writes a file or
\* advances progress holds a slot while doing so, and the jobs that hold a
\* slot are never more than concurrency.
C13_SlotHeldThroughRender ==
    [][/\ sem' >= 0
       /\ Cardinality(Holders') <= concurrency
       /\ \A i \in Jobs :
             /\ apiCalls'[i] # apiCalls[i] => Holding(i)'
             /\ (\/ addBegun'[i] # addBegun[i]
                 \/ addCalls'[i] # addCalls[i]
                 \/ files'[i] # files[i]
                 \/ advCalls'[i] # advCalls[i]) => Holding(i) /\ Holding(i)'
       /\ progress' # progress => Holding(running)]_vars

C13_Witness ==
    /\ \E i \in Jobs : pc[i] = "rendered" /\ files[i] = 1
    /\ waiters # <<>>
    /\ Cardinality(Holders) = concurrency
    /\ sem = 0

\* C14: the cost sequence is in completion order: the entry of job a precedes
\* the entry of job b exactly when a's response was processed before b's, and
\* each entry is the cost of the job that appended it, whatever its index.
C14_CompletionOrder ==
    /\ Len(owners) = Len(cost_tracker.resume_costs)
    /\ \A k \in 1..Len(owners) : cost_tracker.resume_costs[k] = cost[owners[k]]
    /\ \A a, b \in Range(owners) :
          Pos(owners, a) < Pos(owners, b) <=> Pos(order, a) < Pos(order, b)

C14_Witness ==
    /\ total >= 2
    /\ concurrency >= 2
    /\ Len(owners) >= 2
    /\ owners[1] # 1
    /\ 1 \in Range(owners)
    /\ cost_tracker.resume_costs[1] = cost[owners[1]]
    /\ cost[1] # cost[owners[1]]

\* C15: in every step the token counters do not decrease and resume_costs
\* only grows at its end: each entry keeps its position and value for the rest
\* of the run, also after a job has failed.
C15_AppendOnly ==
    [][/\ cost_tracker'.total_input_tokens >= cost_tracker.total_input_tokens
       /\ cost_tracker'.total_output_tokens >= cost_tracker.total_output_tokens
       /\ Len(cost_tracker'.resume_costs) >= Len(cost_tracker.resume_costs)
       /\ SubSeq(cost_tracker'.resume_costs, 1, Len(cost_tracker.resume_costs))
             = cost_tracker.resume_costs]_vars

C15_Witness ==
    /\ mainpc = "error"
    /\ Failed # {}
    /\ Len(cost_tracker.resume_costs) >= 2
    /\ cost_tracker.resume_costs[1] # cost_tracker.resume_costs[2]

CostOf(i) == response[i][1] * PRICE_INPUT_PER_1M + response[i][2] * PRICE_OUTPUT_PER_1M

\* C16: a job whose response body cannot be parsed (the step that raises at
\* line 123, right after the cost was recorded) fails and the error reaches
\* the orchestrator: the job has written no file for its index, has not
\* advanced progress and has returned nothing, and a failed job stays so; the
\* step in which the API call itself fails moreover leaves the CostTracker as
\* it was, so that job has no entry.
C16_FailedJobLeavesNoOutput ==
    [][\A i \in Jobs :
          /\ pc[i] = "recorded" /\ pc'[i] = "failed" =>
                /\ files'[i] = 0
                /\ advCalls'[i] = 0
                /\ results'[i] = <<>>
                /\ gather_raises'
                /\ i \in Range(owners')
          /\ pc[i] = "api" /\ pc'[i] = "failed" =>
                /\ files'[i] = 0
                /\ advCalls'[i] = 0
                /\ results'[i] = <<>>
                /\ gather_raises'
                /\ cost_tracker' = cost_tracker
                /\ addBegun'[i] = 0
                /\ i \notin Range(owners')
          /\ pc[i] = "failed" =>
                /\ pc'[i] = "failed"
                /\ files'[i] = files[i]
                /\ advCalls'[i] = advCalls[i]
                /\ results'[i] = results[i]
                /\ mainpc' \in {"gather", "error"}
                /\ ~summary'.produced]_vars

C16_Witness ==
    /\ \E i \in Failed : i \in Range(owners) /\ files[i] = 0 /\ results[i] = <<>>
    /\ \E j \in Failed : addBegun[j] = 0 /\ apiCalls[j] = 1
    /\ cost_tracker.resume_costs # <<>>
    /\ mainpc = "error"

\* C17: the pair a job returns carries its own cost: for every job that
\* completes, the cost returned is the one computed from the token usage of
\* that job's own API response, whatever other jobs have recorded.
C17_ReturnsOwnCost ==
    \A i \in Jobs :
        results[i] # <<>> =>
            /\ pc[i] = "done"
            /\ results[i] = <<i, CostOf(i)>>

C17_Witness ==
    \E i, j \in Jobs :
        /\ results[i] # <<>>
        /\ j # i
        /\ {i, j} \subseteq Range(owners)
        /\ Pos(owners, j) < Pos(owners, i)
        /\ CostOf(j) # CostOf(i)

\* C18: in every state of a run, successful or aborted: progress units <=
\* files written <= entries of resume_costs <= API calls issued <= total, and
\* each job issues at most one API call, records at most one cost, writes at
\* most one file and advances progress at most once, in that order.
C18_PipelineOrder ==
    /\ progress = SumOver(advCalls, Jobs)
    /\ progress <= SumOver(files, Jobs)
    /\ SumOver(files, Jobs) <= Len(cost_tracker.resume_costs)
    /\ Len(cost_tracker.resume_costs) <= SumOver(apiCalls, Jobs)
    /\ SumOver(apiCalls, Jobs) <= total
    /\ \A i \in Jobs :
          /\ apiCalls[i] <= 1
          /\ advCalls[i] <= files[i]
          /\ files[i] <= addCalls[i]
          /\ addCalls[i] <= addBegun[i]
          /\ addBegun[i] <= apiCalls[i]

C18_Witness ==
    /\ mainpc = "error"
    /\ progress >= 1
    /\ SumOver(files, Jobs) < Len(cost_tracker.resume_costs)
    /\ Len(cost_tracker.resume_costs) < SumOver(apiCalls, Jobs)

\* C19: if every API call returns a valid response and rendering succeeds,
\* then under fair scheduling every job that waits for a slot gets one, every
\* job completes, and the run reaches the end of main_async past the summary
\* with all slots free.
C19_RunCompletes ==
    /\ <>(/\ mainpc = "done"
          /\ summary.produced
          /\ sem = concurrency
          /\ \A i \in 1..total : pc[i] = "done")
    /\ \A i \in Jobs : (pc[i] = "waiting") ~> Holding(i)
    /\ \A i \in Jobs : (pc[i] = "scheduled") ~> (pc[i] = "done")

C19_Witness ==
    /\ mainpc = "done"
    /\ total >= 2
    /\ concurrency = 1
    /\ sem = concurrency
    /\ \A i \in 1..total : pc[i] = "done"

====
